---- MODULE Spec2Model ----
(***************************************************************************)
(* Token lifecycle of the auth service: AuthService (register, login,      *)
(* refresh, logout, validateToken, generateTokens), TokenService (the      *)
(* Redis keys refresh:<userId> and blacklist:<jti>), JwtStrategy,          *)
(* JwtRefreshStrategy, UsersService and the TCP message handlers.          *)
(*                                                                         *)
(* Time is in seconds.  A JWT is a record of its signing key and its       *)
(* claims; a Redis key is a record of its value and the instant it         *)
(* expires.  Every request runs in one of the Procs; a request is atomic   *)
(* between two store round trips and interleaves with the other requests   *)
(* at each of them.                                                        *)
(***************************************************************************)
EXTENDS Integers, Sequences, FiniteSets, TLC

VARIABLES now, ticks, faults, cfg, users, refreshKeys, blacklistKeys, nextJti,
          logouts, issuedAT, issuedRT, call, result, hist

vars == <<now, ticks, faults, cfg, users, refreshKeys, blacklistKeys, nextJti,
          logouts, issuedAT, issuedRT, call, result, hist>>

----------------------------------------------------------------------------
(* Bounds of the model *)

\* token pairs minted in one behaviour (uuidv4 is modelled by a counter)
MaxIssue == 3
\* advances of the clock in one behaviour
MaxTicks == 1
\* logout requests in one behaviour
MaxLogout == 2
\* store commands that go unanswered in one behaviour of a run with faults
MaxFaults == 1

\* the clock advances by the blacklist ttl (15 minutes) or by the
\* refresh-record ttl (7 days)
Jumps == {900, 604800}

Procs == {"p1", "p2"}

None == [none |-> TRUE]

----------------------------------------------------------------------------
(* Configuration: jwt.accessSecret, jwt.refreshSecret, jwt.accessExpiresIn, *)
(* jwt.refreshExpiresIn                                                     *)

AccessSecret == "access-secret"
RefreshSecret == "refresh-secret"

\* the documented defaults (15m, 7d) and a deployment with longer lifetimes
\* (20m, 14d)
ConfigChoices ==
    { [accessExpiresIn |-> 900,  refreshExpiresIn |-> 604800],
      [accessExpiresIn |-> 1200, refreshExpiresIn |-> 1209600] }

----------------------------------------------------------------------------
(* User directory *)

\* register requests: email, password and the roles column of the new row
RegisterDtos ==
    { [email |-> "a@x", password |-> "pwA", roles |-> <<"admin", "user">>] }

\* what login requests carry: a registered email or not, the password or not
Emails == {d.email : d \in RegisterDtos} \cup {"nobody@x"}
Passwords == {d.password : d \in RegisterDtos} \cup {"wrong"}

\* the register requests of a run with a second subject
TwoSubjects ==
    RegisterDtos \cup { [email |-> "b@x", password |-> "pwB", roles |-> <<"user">>] }

\* the uuid primary key the database generates for the row of an email
IdOf(email) == IF email = "a@x" THEN "u1" ELSE "u2"
UserIds == {IdOf(d.email) : d \in TwoSubjects}

----------------------------------------------------------------------------
(* JSON Web Tokens (jsonwebtoken, HS256) *)

\* AccessToken with the roles claim left out of the signed payload
AccessTokenNoRoles(user, jti, t, ttl) ==
    [typ |-> "jwt", key |-> AccessSecret, sub |-> user.id, email |-> user.email,
     roles |-> <<>>, jti |-> jti, iat |-> t, exp |-> t + ttl]

\* jwtService.signAsync(payload, {secret, expiresIn}): the claims, iat and exp,
\* signed with secret.  The signature is a function of the claims and the key:
\* two tokens of equal claims signed in the same second are the same string.
AccessToken(user, jti, t, ttl) ==
    [typ |-> "jwt", key |-> AccessSecret, sub |-> user.id, email |-> user.email,
     roles |-> user.roles, jti |-> jti, iat |-> t, exp |-> t + ttl]

RefreshToken(user, t, ttl) ==
    [typ |-> "jwt", key |-> RefreshSecret, sub |-> user.id, iat |-> t, exp |-> t + ttl]

\* strings a caller can present that no issuer signed
Garbage == [typ |-> "garbage"]
ForgedAccess ==
    [typ |-> "jwt", key |-> "forged", sub |-> "u1", email |-> "a@x",
     roles |-> <<"admin">>, jti |-> 0, iat |-> 0, exp |-> 9999999]
ForgedRefresh ==
    [typ |-> "jwt", key |-> "forged", sub |-> "u1", iat |-> 0, exp |-> 9999999]

\* jwt verify with ignoreExpiration false: structure, signature, then expiry
\* (expired when clock >= exp)
JwtVerify(tok, secret, t) ==
    IF tok.typ # "jwt" THEN "JsonWebTokenError"
    ELSE IF tok.key # secret THEN "JsonWebTokenError"
    ELSE IF t >= tok.exp THEN "TokenExpiredError"
    ELSE "ok"

\* the decoded payload of an access token
Payload(tok) ==
    [sub |-> tok.sub, email |-> tok.email, roles |-> tok.roles, jti |-> tok.jti,
     iat |-> tok.iat, exp |-> tok.exp]

----------------------------------------------------------------------------
(* bcryptjs *)

\* bcrypt reads the first 72 bytes of its input.  A password is shorter.  A
\* JWT is longer: its first 72 bytes are the 36 characters of the header
\* {"alg":"HS256","typ":"JWT"}, the dot and 35 characters of the payload,
\* which encode {"sub":" and the first 18 characters of the uuid in sub.
Truncate72(s) ==
    IF s.typ = "jwt" THEN [typ |-> "jwt72", header |-> "HS256", sub18 |-> s.sub]
    ELSE s

\* bcrypt.hash(s, rounds): the salt and the cost do not affect compare
bcryptHash(s) == [bcrypt |-> Truncate72(s)]

\* bcrypt.compare(s, hash)
bcryptCompare(s, hash) == bcryptHash(s) = hash

Plain(text) == [typ |-> "plain", text |-> text]

----------------------------------------------------------------------------
(* TokenService: Redis keys with EX *)

\* SET key value EX ttl at instant t
RedisSetEx(keys, k, v, ttl, t) == [keys EXCEPT ![k] = [val |-> v, exp |-> t + ttl]]

\* GET key at instant t: null for a missing or expired key
RedisGet(keys, k, t) ==
    IF keys[k] = None THEN None
    ELSE IF t >= keys[k].exp THEN None
    ELSE keys[k]

\* DEL key
RedisDel(keys, k) == [keys EXCEPT ![k] = None]

\* keys Redis has dropped at instant t
RedisExpire(keys, t) ==
    [k \in DOMAIN keys |-> IF keys[k] # None /\ t >= keys[k].exp THEN None ELSE keys[k]]

\* saveRefreshToken's default ttlSeconds, the only one its caller uses
refreshTtlSeconds == 604800

saveRefreshToken(keys, userId, token, t) ==
    RedisSetEx(keys, userId, token, refreshTtlSeconds, t)

getRefreshToken(keys, userId, t) == RedisGet(keys, userId, t)

\* deleteRefreshToken whose key pattern matches the records of all subjects
deleteRefreshTokenAll(keys, userId) == [k \in DOMAIN keys |-> None]

deleteRefreshToken(keys, userId) == RedisDel(keys, userId)

\* blacklistToken that removes an entry it finds
blacklistTokenToggle(keys, jti, ttlSeconds, t) ==
    IF keys[jti] # None THEN RedisDel(keys, jti)
    ELSE RedisSetEx(keys, jti, "1", ttlSeconds, t)

blacklistToken(keys, jti, ttlSeconds, t) == RedisSetEx(keys, jti, "1", ttlSeconds, t)

\* isBlacklisted that asks whether any blacklist key exists
isBlacklistedAny(keys, jti, t) == \E j \in DOMAIN keys : RedisGet(keys, j, t) # None

isBlacklisted(keys, jti, t) == RedisGet(keys, jti, t) # None

\* token ids: 0 was never issued, 1.. are the uuids generateTokens draws
Jtis == 0 .. MaxIssue

----------------------------------------------------------------------------
(* UsersService *)

\* findByEmail that matches the email against the id column
findByEmailById(us, email) ==
    IF \E u \in us : u.id = email
    THEN CHOOSE u \in us : u.id = email
    ELSE None

findByEmail(us, email) ==
    IF \E u \in us : u.email = email
    THEN CHOOSE u \in us : u.email = email
    ELSE None

findById(us, id) ==
    IF \E u \in us : u.id = id
    THEN CHOOSE u \in us : u.id = id
    ELSE None

\* validatePassword that takes every password
validatePasswordAny(plain, hashed) == TRUE

validatePassword(plain, hashed) == bcryptCompare(Plain(plain), hashed)

\* the row UsersService.create saves for a dto whose email is free
NewUser(dto) ==
    [id |-> IdOf(dto.email), email |-> dto.email,
     password |-> bcryptHash(Plain(dto.password)), isActive |-> TRUE,
     roles |-> dto.roles]

----------------------------------------------------------------------------
(* AuthService and the strategies, as functions of what they read *)

\* AuthService.validateUser
validateUser(us, email, password) ==
    LET user == findByEmail(us, email) IN
    IF user = None THEN None
    ELSE IF validatePassword(password, user.password) THEN user
    ELSE None

\* the local guard of POST /auth/login: the Credential Verifier must succeed,
\* or the request fails InvalidCredentials and AuthService.login is not called
LocalStrategyValidate(us, email, password) ==
    LET user == validateUser(us, email, password) IN
    IF user = None
    THEN [outcome |-> "InvalidCredentials", user |-> None]
    ELSE [outcome |-> "ok", user |-> user]

\* the jwt-refresh guard: passport-jwt verifies the body field refreshToken
\* with jwt.refreshSecret, then JwtRefreshStrategy.validate runs.  storeOk is
\* whether the GET of refresh:<sub> was answered.
\*   InvalidCredentials: 401 of passport, or 'Invalid refresh token'
\*   SessionExpired:     'Refresh token expired or not found'
JwtRefreshValidate(tok, keys, us, t, storeOk) ==
    IF JwtVerify(tok, RefreshSecret, t) # "ok"
    THEN [outcome |-> "InvalidCredentials", user |-> None, storeFailed |-> FALSE,
          reads |-> 0]
    ELSE IF ~storeOk
    THEN [outcome |-> "StoreUnavailable", user |-> None, storeFailed |-> TRUE,
          reads |-> 1]
    ELSE LET stored == getRefreshToken(keys, tok.sub, t) IN
         IF stored = None
         THEN [outcome |-> "SessionExpired", user |-> None, storeFailed |-> FALSE,
               reads |-> 1]
         ELSE IF ~bcryptCompare(tok, stored.val)
         THEN [outcome |-> "InvalidCredentials", user |-> None,
               storeFailed |-> FALSE, reads |-> 1]
         ELSE LET user == findById(us, tok.sub) IN
              IF user = None
              THEN [outcome |-> "UserNotFound", user |-> None,
                    storeFailed |-> FALSE, reads |-> 1]
              ELSE [outcome |-> "ok", user |-> user, storeFailed |-> FALSE,
                    reads |-> 1]

\* validateToken whose catch covers verify only and whose caller then takes
\* an unanswered blacklist lookup for "not blacklisted"
validateTokenFailOpen(tok, keys, t, storeOk) ==
    IF JwtVerify(tok, AccessSecret, t) # "ok"
    THEN [threw |-> FALSE, valid |-> FALSE, payload |-> None, reads |-> 0]
    ELSE IF ~storeOk
    THEN [threw |-> FALSE, valid |-> TRUE, payload |-> Payload(tok), reads |-> 1]
    ELSE IF isBlacklisted(keys, tok.jti, t)
    THEN [threw |-> FALSE, valid |-> FALSE, payload |-> None, reads |-> 1]
    ELSE [threw |-> FALSE, valid |-> TRUE, payload |-> Payload(tok), reads |-> 1]

\* validateToken that decodes the token and asks the store for its jti before
\* it verifies signature and expiry
validateTokenStoreFirst(tok, keys, t, storeOk) ==
    IF tok.typ # "jwt"
    THEN [threw |-> FALSE, valid |-> FALSE, payload |-> None, reads |-> 0]
    ELSE IF ~storeOk
    THEN [threw |-> FALSE, valid |-> FALSE, payload |-> None, reads |-> 1]
    ELSE IF isBlacklisted(keys, tok.jti, t)
    THEN [threw |-> FALSE, valid |-> FALSE, payload |-> None, reads |-> 1]
    ELSE IF JwtVerify(tok, AccessSecret, t) # "ok"
    THEN [threw |-> FALSE, valid |-> FALSE, payload |-> None, reads |-> 1]
    ELSE [threw |-> FALSE, valid |-> TRUE, payload |-> Payload(tok), reads |-> 1]

\* AuthService.validateToken: verify and isBlacklisted run inside one try
\* whose catch returns {valid: false}; verify throws for a malformed, wrongly
\* signed or expired token before isBlacklisted is called.  reads counts the
\* commands sent to the store.
validateToken(tok, keys, t, storeOk) ==
    IF JwtVerify(tok, AccessSecret, t) # "ok"
    THEN [threw |-> FALSE, valid |-> FALSE, payload |-> None, reads |-> 0]
    ELSE IF ~storeOk
    THEN [threw |-> FALSE, valid |-> FALSE, payload |-> None, reads |-> 1]
    ELSE IF isBlacklisted(keys, tok.jti, t)
    THEN [threw |-> FALSE, valid |-> FALSE, payload |-> None, reads |-> 1]
    ELSE [threw |-> FALSE, valid |-> TRUE, payload |-> Payload(tok), reads |-> 1]

\* AuthMicroserviceController.getUserFromToken
getUserFromToken(tok, keys, t, storeOk) ==
    LET r == validateToken(tok, keys, t, storeOk) IN
    IF r.threw THEN [threw |-> TRUE, error |-> FALSE, user |-> None]
    ELSE IF ~r.valid THEN [threw |-> FALSE, error |-> TRUE, user |-> None]
    ELSE [threw |-> FALSE, error |-> FALSE, user |-> r.payload]

\* the jwt guard: passport-jwt verifies the bearer token with
\* jwt.accessSecret, then JwtStrategy.validate runs.  storeOk is whether the
\* GET of blacklist:<jti> was answered.
JwtStrategyValidate(tok, keys, us, t, storeOk) ==
    IF JwtVerify(tok, AccessSecret, t) # "ok"
    THEN [outcome |-> "Unauthorized", user |-> None]
    ELSE IF ~storeOk
    THEN [outcome |-> "StoreUnavailable", user |-> None]
    ELSE IF isBlacklisted(keys, tok.jti, t)
    THEN [outcome |-> "Revoked", user |-> None]
    ELSE LET user == findById(us, tok.sub) IN
         IF user = None
         THEN [outcome |-> "Unauthorized", user |-> None]
         ELSE IF ~user.isActive
         THEN [outcome |-> "Unauthorized", user |-> None]
         ELSE [outcome |-> "ok",
               user |-> [id |-> user.id, email |-> user.email,
                         roles |-> user.roles, jti |-> tok.jti]]

\* the blacklist ttl of AuthService.logout
accessTtl == 15 * 60

\* logout that waits with Promise.allSettled and ignores the rejections
logoutReturnSettled(blacklistOk, deleteOk) == "ok"

\* what AuthService.logout returns once its two store commands have settled:
\* await Promise.all rejects when either command failed
logoutReturn(blacklistOk, deleteOk) ==
    IF blacklistOk /\ deleteOk THEN "ok" ELSE "StoreUnavailable"

\* what generateTokens returns: it awaits saveRefreshToken before returning
generateTokensReturn(saveOk) == IF saveOk THEN "ok" ELSE "StoreUnavailable"

----------------------------------------------------------------------------
(* State *)

Idle == [op |-> "idle"]
NoResult == [op |-> "none"]
IssuingOps == {"register", "login", "refresh"}

\* what a client can present: the tokens it was handed, and strings of its own
RefreshInputs == issuedRT \cup {Garbage, ForgedRefresh}
AccessInputs == issuedAT \cup {Garbage, ForgedAccess}

\* logout is called with the subject and token id of a bearer token, or with
\* a token id that was never issued
LogoutInputs == {<<at.sub, at.jti>> : at \in issuedAT} \cup {<<"u1", 0>>}

\* whether a store command is answered: always, unless the run has faults
\* left to inject
StoreOutcomes == IF faults > 0 THEN BOOLEAN ELSE {TRUE}

\* the faults left after a store command with outcome storeOk
Spend(storeOk) == IF storeOk THEN faults ELSE faults - 1

\* a new request takes the lowest free slot
Free(p) == call[p] = Idle /\ (p = "p2" => call["p1"] # Idle)

\* a request that will mint a pair starts only while the uuid counter lasts
Budget ==
    nextJti + Cardinality({q \in Procs : call[q].op \in IssuingOps}) <= MaxIssue

\* the store as the idempotence of logout compares it
StoreView(rk, bk) ==
    [refresh |-> rk, blacklist |-> {j \in DOMAIN bk : bk[j] # None}]

\* the session state Revoked of a subject: logout has returned, no login or
\* register has since, there is no Refresh Record and a token id of the
\* subject is blacklisted
Revoked(u) ==
    /\ u \in hist.loggedOut
    /\ getRefreshToken(refreshKeys, u, now) = None
    /\ \E at \in issuedAT : at.sub = u /\ isBlacklisted(blacklistKeys, at.jti, now)

\* history of the run, read by the properties only.  latest[u] is the refresh
\* token whose hash the last SET of refresh:<u> stored, None after a DEL.
\* overlapped holds the subjects whose last logout returned while a refresh
\* of the subject was past the guard and had not yet stored its record.
HistInit ==
    [rotatedOut |-> {}, revoked |-> {}, loggedOut |-> {}, overlapped |-> {},
     latest |-> [u \in UserIds |-> None],
     lastLogin |-> [u \in UserIds |-> None], prevLogin |-> [u \in UserIds |-> None],
     lastLogout |-> None, justIssued |-> None]

InitCommon ==
    /\ now = 0
    /\ ticks = 0
    /\ cfg \in ConfigChoices
    /\ users = {}
    /\ refreshKeys = [u \in UserIds |-> None]
    /\ blacklistKeys = [j \in Jtis |-> None]
    /\ nextJti = 1
    /\ logouts = 0
    /\ issuedAT = {}
    /\ issuedRT = {}
    /\ call = [p \in Procs |-> Idle]
    /\ result = NoResult
    /\ hist = HistInit

Init == InitCommon /\ faults = 0

\* a run in which store commands can fail, under the default configuration
InitFault ==
    /\ InitCommon
    /\ faults = MaxFaults
    /\ cfg.accessExpiresIn = 900

----------------------------------------------------------------------------
(* Requests.  result is what the request that returned in the last step    *)
(* returned; NoResult when the last step returned nothing.                 *)

\* a request waiting in generateTokens
IssueCall(op, user, presented) ==
    [op |-> op, user |-> user, presented |-> presented,
     stale |-> presented \in hist.rotatedOut, raced |-> FALSE,
     identical |-> presented = hist.latest[user.id],
     sawLogin |-> hist.lastLogin[user.id]]

\* AuthService.register up to generateTokens: UsersService.create
Register(p, dto) ==
    /\ Free(p)
    /\ IF findByEmail(users, dto.email) # None
       THEN /\ result' = [op |-> "register", outcome |-> "AlreadyExists"]
            /\ UNCHANGED <<users, call>>
       ELSE /\ Budget
            /\ users' = users \cup {NewUser(dto)}
            /\ call' = [call EXCEPT ![p] = IssueCall("register", NewUser(dto), None)]
            /\ result' = NoResult
    /\ UNCHANGED <<now, ticks, faults, cfg, refreshKeys, blacklistKeys, nextJti,
                   logouts, issuedAT, issuedRT, hist>>

\* the local guard (validateUser) and AuthService.login up to generateTokens
Login(p, email, password) ==
    /\ Free(p)
    /\ LET v == LocalStrategyValidate(users, email, password) IN
       IF v.outcome # "ok"
       THEN /\ result' = [op |-> "login", outcome |-> v.outcome,
                          known |-> \E u \in users : u.email = email]
            /\ UNCHANGED call
       ELSE /\ Budget
            /\ call' = [call EXCEPT ![p] = IssueCall("login", v.user, None)]
            /\ result' = NoResult
    /\ UNCHANGED <<now, ticks, faults, cfg, users, refreshKeys, blacklistKeys,
                   nextJti, logouts, issuedAT, issuedRT, hist>>

\* the jwt-refresh guard and AuthService.refresh up to generateTokens
Refresh(p, tok, storeOk) ==
    /\ Free(p)
    /\ LET v == JwtRefreshValidate(tok, refreshKeys, users, now, storeOk) IN
       IF v.outcome # "ok"
       THEN /\ result' = [op |-> "refresh", outcome |-> v.outcome,
                          stale |-> tok \in hist.rotatedOut,
                          raced |-> FALSE, storeFailed |-> v.storeFailed,
                          guard |-> TRUE, reads |-> v.reads,
                          verify |-> JwtVerify(tok, RefreshSecret, now),
                          present |-> IF JwtVerify(tok, RefreshSecret, now) = "ok"
                                      THEN getRefreshToken(refreshKeys, tok.sub, now) # None
                                      ELSE FALSE,
                          identical |-> IF JwtVerify(tok, RefreshSecret, now) = "ok"
                                        THEN tok = hist.latest[tok.sub]
                                        ELSE FALSE,
                          before |-> [refresh |-> refreshKeys,
                                      blacklist |-> blacklistKeys,
                                      minted |-> nextJti]]
            /\ UNCHANGED call
       ELSE /\ Budget
            /\ call' = [call EXCEPT ![p] = IssueCall("refresh", v.user, tok)]
            /\ result' = NoResult
    /\ storeOk \/ JwtVerify(tok, RefreshSecret, now) = "ok"
    /\ faults' = Spend(storeOk)
    /\ UNCHANGED <<now, ticks, cfg, users, refreshKeys, blacklistKeys,
                   nextJti, logouts, issuedAT, issuedRT, hist>>

\* AuthService.generateTokens: mint the pair, hash the refresh token and SET
\* refresh:<id>; saveOk is whether the SET was answered
GenerateTokens(p, saveOk) ==
    LET c == call[p]
        jti == nextJti
        at == AccessToken(c.user, jti, now, cfg.accessExpiresIn)
        rt == RefreshToken(c.user, now, cfg.refreshExpiresIn)
        hashed == bcryptHash(rt)
        uid == c.user.id
        out == generateTokensReturn(saveOk)
    IN
    /\ c.op \in IssuingOps
    /\ nextJti' = nextJti + 1
    /\ refreshKeys' = IF saveOk THEN saveRefreshToken(refreshKeys, uid, hashed, now)
                      ELSE refreshKeys
    /\ issuedAT' = IF out = "ok" THEN issuedAT \cup {at} ELSE issuedAT
    /\ issuedRT' = IF out = "ok" THEN issuedRT \cup {rt} ELSE issuedRT
    /\ result' = [op |-> c.op, outcome |-> out, stale |-> c.stale,
                  raced |-> c.raced, storeFailed |-> ~saveOk, guard |-> FALSE,
                  fromRevoked |-> Revoked(uid)]
    /\ call' = [q \in Procs |->
                  IF q = p THEN Idle
                  ELSE IF /\ out = "ok"
                          /\ c.op = "refresh"
                          /\ call[q].op = "refresh"
                          /\ call[q].presented = c.presented
                       THEN [call[q] EXCEPT !.raced = TRUE]
                       ELSE call[q]]
    /\ hist' = IF out # "ok" THEN [hist EXCEPT !.justIssued = None]
               ELSE [hist EXCEPT
                      !.latest[uid] = rt,
                      !.rotatedOut = IF c.op = "refresh" /\ rt # c.presented
                                     THEN @ \cup {c.presented} ELSE @,
                      !.loggedOut = IF c.op \in {"login", "register"}
                                    THEN @ \ {uid} ELSE @,
                      !.overlapped = IF c.op \in {"login", "register"}
                                     THEN @ \ {uid} ELSE @,
                      !.prevLogin[uid] = IF /\ c.op = "login"
                                            /\ c.sawLogin # None
                                            /\ c.sawLogin = hist.lastLogin[uid]
                                         THEN hist.lastLogin[uid] ELSE None,
                      !.lastLogin[uid] = IF c.op = "login" THEN rt ELSE None,
                      !.lastLogout = None,
                      !.justIssued = [accessToken |-> at, refreshToken |-> rt,
                                      user |-> c.user, jti |-> jti]]
    /\ faults' = Spend(saveOk)
    /\ UNCHANGED <<now, ticks, cfg, users, blacklistKeys, logouts>>

\* AuthService.logout, first command of its Promise.all: SET blacklist:<jti>
Logout(p, userId, jti, storeOk) ==
    LET repeat == IF hist.lastLogout = None THEN FALSE
                  ELSE hist.lastLogout.userId = userId /\ hist.lastLogout.jti = jti
    IN
    /\ Free(p)
    /\ logouts < MaxLogout
    /\ logouts' = logouts + 1
    /\ blacklistKeys' = IF storeOk THEN blacklistToken(blacklistKeys, jti, accessTtl, now)
                        ELSE blacklistKeys
    /\ call' = [call EXCEPT ![p] =
                  [op |-> "logout", userId |-> userId, jti |-> jti,
                   blacklistOk |-> storeOk, repeat |-> repeat]]
    /\ hist' = [hist EXCEPT !.justIssued = None,
                            !.lastLogout = IF repeat THEN @ ELSE None]
    /\ result' = NoResult
    /\ faults' = Spend(storeOk)
    /\ UNCHANGED <<now, ticks, cfg, users, refreshKeys, nextJti,
                   issuedAT, issuedRT>>

\* AuthService.logout, second command: DEL refresh:<userId>, then the return
LogoutDelete(p, storeOk) ==
    LET c == call[p]
        out == logoutReturn(c.blacklistOk, storeOk)
        rk == IF storeOk THEN deleteRefreshToken(refreshKeys, c.userId) ELSE refreshKeys
        view == StoreView(rk, blacklistKeys)
        repeat == c.repeat /\ hist.lastLogout # None
    IN
    /\ c.op = "logout"
    /\ refreshKeys' = rk
    /\ call' = [call EXCEPT ![p] = Idle]
    /\ result' = [op |-> "logout", outcome |-> out,
                  storeFailed |-> ~(c.blacklistOk /\ storeOk),
                  repeat |-> repeat,
                  sameState |-> IF repeat THEN view = hist.lastLogout.view ELSE TRUE]
    /\ hist' = [hist EXCEPT
                  !.revoked = IF out = "ok" THEN @ \cup {c.jti} ELSE @,
                  !.loggedOut = IF out = "ok" THEN @ \cup {c.userId} ELSE @,
                  !.overlapped = IF out # "ok" THEN @
                                 ELSE IF \E q \in Procs :
                                            /\ call[q].op = "refresh"
                                            /\ call[q].user.id = c.userId
                                      THEN @ \cup {c.userId}
                                 ELSE @ \ {c.userId},
                  !.latest[c.userId] = IF storeOk THEN None ELSE @,
                  !.lastLogin[c.userId] = None,
                  !.prevLogin[c.userId] = None,
                  !.lastLogout = IF out = "ok"
                                 THEN [userId |-> c.userId, jti |-> c.jti, view |-> view]
                                 ELSE None,
                  !.justIssued = None]
    /\ faults' = Spend(storeOk)
    /\ UNCHANGED <<now, ticks, cfg, users, blacklistKeys, nextJti, logouts,
                   issuedAT, issuedRT>>

\* message pattern auth.validate_token
ValidateToken(tok, storeOk) ==
    /\ result' = [op |-> "validateToken",
                  res |-> validateToken(tok, blacklistKeys, now, storeOk),
                  verify |-> JwtVerify(tok, AccessSecret, now),
                  storeOk |-> storeOk,
                  revoked |-> IF tok.typ = "jwt" THEN tok.jti \in hist.revoked
                              ELSE FALSE,
                  listed |-> IF tok.typ = "jwt" THEN blacklistKeys[tok.jti] # None
                             ELSE FALSE,
                  fresh |-> IF hist.justIssued = None THEN None
                            ELSE IF hist.justIssued.accessToken = tok
                            THEN hist.justIssued ELSE None]
    /\ storeOk \/ JwtVerify(tok, AccessSecret, now) = "ok"
    /\ faults' = Spend(storeOk)
    /\ UNCHANGED <<now, ticks, cfg, users, refreshKeys, blacklistKeys,
                   nextJti, logouts, issuedAT, issuedRT, call, hist>>

\* message pattern auth.get_user_from_token
GetUserFromToken(tok, storeOk) ==
    /\ result' = [op |-> "getUserFromToken",
                  res |-> getUserFromToken(tok, blacklistKeys, now, storeOk),
                  verify |-> JwtVerify(tok, AccessSecret, now),
                  storeOk |-> storeOk,
                  revoked |-> IF tok.typ = "jwt" THEN tok.jti \in hist.revoked
                              ELSE FALSE,
                  listed |-> IF tok.typ = "jwt" THEN blacklistKeys[tok.jti] # None
                             ELSE FALSE]
    /\ storeOk \/ JwtVerify(tok, AccessSecret, now) = "ok"
    /\ faults' = Spend(storeOk)
    /\ UNCHANGED <<now, ticks, cfg, users, refreshKeys, blacklistKeys,
                   nextJti, logouts, issuedAT, issuedRT, call, hist>>

\* the clock advances; Redis drops the keys whose EX has run out.  The jumps
\* are minutes and days: no request is in flight across one.
Tick(d) ==
    /\ ticks < MaxTicks
    /\ \A p \in Procs : call[p] = Idle
    /\ ticks' = ticks + 1
    /\ now' = now + d
    /\ refreshKeys' = RedisExpire(refreshKeys, now + d)
    /\ blacklistKeys' = RedisExpire(blacklistKeys, now + d)
    /\ hist' = [hist EXCEPT !.lastLogout = None, !.justIssued = None]
    /\ result' = NoResult
    /\ UNCHANGED <<faults, cfg, users, nextJti, logouts, issuedAT, issuedRT, call>>

\* the requests of clients that register with dtos and log in with emails
\* and passwords
Requests(dtos, emails, passwords) ==
    \/ \E p \in Procs, dto \in dtos : Register(p, dto)
    \/ \E p \in Procs, e \in emails, pw \in passwords : Login(p, e, pw)
    \/ \E p \in Procs, tok \in RefreshInputs, ok \in StoreOutcomes : Refresh(p, tok, ok)
    \/ \E p \in Procs, ok \in StoreOutcomes : GenerateTokens(p, ok)
    \/ \E p \in Procs, in \in LogoutInputs, ok \in StoreOutcomes :
          Logout(p, in[1], in[2], ok)
    \/ \E p \in Procs, ok \in StoreOutcomes : LogoutDelete(p, ok)
    \/ \E tok \in AccessInputs, ok \in StoreOutcomes : ValidateToken(tok, ok)
    \/ \E tok \in AccessInputs, ok \in StoreOutcomes : GetUserFromToken(tok, ok)
    \/ \E d \in Jumps : Tick(d)

Next == Requests(RegisterDtos, Emails, Passwords)

\* two subjects use the service
NextFrame ==
    Requests(TwoSubjects, {d.email : d \in TwoSubjects},
             {d.password : d \in TwoSubjects})

Spec == Init /\ [][Next]_vars

SpecFault == InitFault /\ [][Next]_vars

\* the user directory is a table this service shares: the row of a subject is
\* deactivated there (users.isActive) while the tokens it was issued are out
Deactivate(id) ==
    /\ \E u \in users : u.id = id /\ u.isActive
    /\ users' = {IF u.id = id THEN [u EXCEPT !.isActive = FALSE] ELSE u : u \in users}
    /\ result' = NoResult
    /\ UNCHANGED <<now, ticks, faults, cfg, refreshKeys, blacklistKeys, nextJti,
                   logouts, issuedAT, issuedRT, call, hist>>

NextDirectory ==
    \/ Next
    \/ \E id \in UserIds : Deactivate(id)

\* a run with two subjects, under the default configuration
InitFrame ==
    /\ Init
    /\ cfg.accessExpiresIn = 900

SpecFrame == InitFrame /\ [][NextFrame]_vars

\* the service next to a directory whose rows change
SpecDirectory == Init /\ [][NextDirectory]_vars

----------------------------------------------------------------------------
(* Properties *)

\* what the jwt-refresh guard answers to tok in the current state
Guard(tok) == JwtRefreshValidate(tok, refreshKeys, users, now, TRUE).outcome

\* the refresh tokens issued to u that have not expired
Unexpired(u) ==
    {rt \in issuedRT : rt.sub = u /\ JwtVerify(rt, RefreshSecret, now) = "ok"}

\* C1 (rotation invalidation): a refresh that presents a token which an
\* earlier, completed refresh exchanged for a different token does not succeed.
C1_RotationInvalidation ==
    (result.op = "refresh" /\ result.stale) => result.outcome # "ok"

\* C2 (revocation precedence): once logout(sub, tid) has returned, validateToken
\* of an access token with token id tid, signature valid and not expired,
\* answers valid: false.
C2_RevocationPrecedence ==
    (result.op = "validateToken" /\ result.verify = "ok" /\ result.revoked)
        => ~result.res.valid

\* C3 (concurrent refresh): of two refresh requests that presented the same
\* token and both passed the guard before either stored its new record, the
\* one that finishes second does not succeed.
C3_ConcurrentRefresh ==
    (result.op = "refresh" /\ result.raced) => result.outcome # "ok"

\* C4 (single active session): after two logins of a subject, one after the
\* other, that returned rtA and then rtB, the guard rejects rtA and accepts rtB.
C4_SingleActiveSession ==
    \A u \in UserIds :
        (hist.prevLogin[u] # None /\ hist.prevLogin[u] # hist.lastLogin[u])
            => /\ Guard(hist.prevLogin[u]) # "ok"
               /\ JwtVerify(hist.lastLogin[u], RefreshSecret, now) = "ok"
                    => Guard(hist.lastLogin[u]) = "ok"

\* C5 (one refresh lineage): in every state the guard accepts at most one of
\* the refresh tokens issued to a subject.
C5_OneAcceptedRefreshToken ==
    \A u \in UserIds :
        Cardinality({rt \in issuedRT : rt.sub = u /\ Guard(rt) = "ok"}) <= 1

\* C6 (logout ends the session): from the return of logout(sub, tid) until the
\* next login or register of sub returns, the guard answers SessionExpired to
\* every unexpired refresh token of sub.
C6_LogoutEndsSession ==
    \A u \in hist.loggedOut :
        \A rt \in Unexpired(u) : Guard(rt) = "SessionExpired"

\* C7 (idempotent logout): logout never returns an error, whether or not the
\* subject has a Refresh Record, and a logout that directly follows a logout
\* with the same arguments leaves the Refresh Records and the set of
\* blacklisted token ids as the first one left them.
C7_IdempotentLogout ==
    result.op = "logout" =>
        /\ result.outcome = "ok"
        /\ result.repeat => result.sameState

C7_Witness ==
    /\ result.op = "logout"
    /\ result.repeat
    /\ result.outcome = "ok"
    /\ \E j \in Jtis : j > 0 /\ blacklistKeys[j] # None

\* C8 (round trip): validateToken of the access token of the pair that was
\* issued last, with nothing done in between, answers valid: true with the
\* subject's id, email and roles and the token id of that issuance.
C8_RoundTrip ==
    (result.op = "validateToken" /\ result.fresh # None) =>
        /\ result.res.valid
        /\ result.res.payload.sub = result.fresh.user.id
        /\ result.res.payload.email = result.fresh.user.email
        /\ result.res.payload.roles = result.fresh.user.roles
        /\ result.res.payload.jti = result.fresh.jti

C8_Witness ==
    /\ result.op = "validateToken"
    /\ result.fresh # None
    /\ result.res.valid
    /\ Len(result.res.payload.roles) = 2

\* C9 (remote validation is total and fails closed): auth.validate_token and
\* auth.get_user_from_token never throw, whatever token is presented and
\* whether or not the store answers; they answer valid (respectively a user)
\* only for a token whose signature and expiry verify and for which the store
\* answered that the token id is not blacklisted; get_user_from_token answers
\* either an error or a user.
C9_RemoteValidationFailsClosed ==
    /\ result.op = "validateToken" =>
          /\ ~result.res.threw
          /\ result.res.valid =>
                (result.verify = "ok" /\ result.storeOk /\ ~result.listed)
    /\ result.op = "getUserFromToken" =>
          /\ ~result.res.threw
          /\ result.res.error = (result.res.user = None)
          /\ ~result.res.error =>
                (result.verify = "ok" /\ result.storeOk /\ ~result.listed)

C9_Witness ==
    /\ result.op = "validateToken"
    /\ result.verify = "ok"
    /\ ~result.storeOk
    /\ ~result.listed
    /\ ~result.res.valid

\* C10 (store failures propagate): a logout whose blacklist write or record
\* delete failed, and a refresh whose record read or record write failed,
\* return an error, never their success result.
C10_StoreFailurePropagates ==
    (result.op \in {"logout", "refresh"} /\ result.storeFailed)
        => result.outcome = "StoreUnavailable"

C10_Witness ==
    /\ result.op = "logout"
    /\ result.storeFailed
    /\ result.outcome = "StoreUnavailable"
    /\ \E u \in UserIds : refreshKeys[u] # None

\* the access tokens a logout in flight has just blacklisted while they were
\* unexpired: the Revocation Entry of at is blacklistKeys[at.jti]
JustBlacklisted ==
    {at \in issuedAT : /\ now < at.exp
                       /\ \E p \in Procs : /\ call[p].op = "logout"
                                           /\ call[p].blacklistOk
                                           /\ call[p].jti = at.jti}

\* C11 (a Revocation Entry does not outlive its token): when logout has
\* blacklisted the token id of an unexpired access token, the entry expires no
\* later than the token does.
C11_EntryExpiresWithToken ==
    \A at \in JustBlacklisted : blacklistKeys[at.jti].exp <= at.exp

\* C12 (the local guard and validateToken agree): for every access token a
\* client can present, the jwt guard accepts it exactly when validateToken
\* answers valid: true, and then both yield the same subject id, email and
\* roles.
C12_GuardMatchesValidateToken ==
    \A tok \in AccessInputs :
        LET g == JwtStrategyValidate(tok, blacklistKeys, users, now, TRUE)
            v == validateToken(tok, blacklistKeys, now, TRUE)
        IN /\ (g.outcome = "ok") <=> v.valid
           /\ g.outcome = "ok" =>
                 /\ g.user.id = v.payload.sub
                 /\ g.user.email = v.payload.email
                 /\ g.user.roles = v.payload.roles

\* C13 (register): a register request whose email a subject already holds
\* answers AlreadyExists and changes neither the directory nor the store, and
\* mints nothing; a register request that succeeded has created the subject,
\* returned a pair that validateToken and the refresh guard accept, and stored
\* the hash of the returned refresh token under the subject's id.
C13_Register ==
    /\ [](result.op = "register" /\ result.outcome = "ok" =>
            LET j == hist.justIssued IN
            /\ \E u \in users : u.id = j.user.id /\ u.email = j.user.email
            /\ j.accessToken \in issuedAT
            /\ j.refreshToken \in issuedRT
            /\ validateToken(j.accessToken, blacklistKeys, now, TRUE).valid
            /\ refreshKeys[j.user.id] # None
            /\ refreshKeys[j.user.id].val = bcryptHash(j.refreshToken)
            /\ Guard(j.refreshToken) = "ok")
    /\ [][\A dto \in RegisterDtos :
            ((\E u \in users : u.email = dto.email)
                /\ (\E p \in Procs : Register(p, dto)))
            => /\ result'.op = "register"
               /\ result'.outcome = "AlreadyExists"
               /\ UNCHANGED <<users, refreshKeys, blacklistKeys, nextJti,
                              issuedAT, issuedRT, call>>]_vars

C13_Witness ==
    /\ result.op = "register"
    /\ result.outcome = "AlreadyExists"
    /\ \E u \in users : refreshKeys[u.id] # None

\* the credentials a subject of the directory registered with
Registered(email, password) ==
    /\ \E u \in users : u.email = email
    /\ \E d \in RegisterDtos : d.email = email /\ d.password = password

\* C14 (login needs verified credentials): a login request with an unknown
\* email or with a password other than the subject's answers
\* InvalidCredentials, mints nothing and leaves the store as it was; every
\* login that reaches the issuer carries a subject of the directory.
C14_LoginNeedsCredentials ==
    /\ [](\A p \in Procs : call[p].op = "login" =>
            \E u \in users : u.id = call[p].user.id /\ u.email = call[p].user.email)
    /\ [][\A e \in Emails, pw \in Passwords :
            (~Registered(e, pw) /\ (\E p \in Procs : Login(p, e, pw)))
            => /\ result'.op = "login"
               /\ result'.outcome = "InvalidCredentials"
               /\ UNCHANGED <<users, refreshKeys, blacklistKeys, nextJti,
                              issuedAT, issuedRT, call>>]_vars

C14_Witness ==
    /\ result.op = "login"
    /\ result.outcome = "InvalidCredentials"
    /\ result.known
    /\ \E u \in users : refreshKeys[u.id] # None

\* C15 (validateToken checks signature and expiry before the store): a
\* validateToken of a malformed, wrongly signed or expired token answers
\* valid: false without a command to the store; the store is read, once, only
\* for a token whose signature and expiry verified.
C15_VerifyBeforeStore ==
    result.op = "validateToken" =>
        /\ result.verify # "ok" => (result.res.reads = 0 /\ ~result.res.valid)
        /\ result.verify = "ok" => result.res.reads = 1

C15_Witness ==
    /\ result.op = "validateToken"
    /\ result.verify = "TokenExpiredError"
    /\ result.revoked
    /\ result.res.reads = 0

\* C16 (refresh: order of the checks and kinds of failure): a refresh whose
\* token fails signature or expiry answers InvalidCredentials without a store
\* read; otherwise, with no Refresh Record for the subject, SessionExpired;
\* otherwise, with a token other than the one whose hash is stored,
\* InvalidCredentials, so that a refresh that passes the guard presented the
\* token whose hash is stored.  A refresh that failed minted nothing and left
\* the Refresh Records and the blacklist as they were.
C16_RefreshChecks ==
    /\ (result.op = "refresh" /\ result.guard) =>
          /\ result.verify # "ok" =>
                (result.outcome = "InvalidCredentials" /\ result.reads = 0)
          /\ (result.verify = "ok" /\ ~result.present) =>
                result.outcome = "SessionExpired"
          /\ (result.verify = "ok" /\ result.present /\ ~result.identical) =>
                result.outcome = "InvalidCredentials"
          /\ result.before = [refresh |-> refreshKeys, blacklist |-> blacklistKeys,
                              minted |-> nextJti]
    /\ \A p \in Procs : call[p].op = "refresh" => call[p].identical

\* C17 (the blacklist ttl covers the token's remaining lifetime): when logout
\* has blacklisted the token id of an unexpired access token, the entry expires
\* no earlier than the token does; and an access token whose logout has
\* returned is answered valid: false for as long as it is unexpired.
C17_BlacklistCoversLifetime ==
    /\ \A at \in JustBlacklisted : blacklistKeys[at.jti].exp >= at.exp
    /\ \A at \in issuedAT :
          (at.jti \in hist.revoked /\ JwtVerify(at, AccessSecret, now) = "ok")
              => ~validateToken(at, blacklistKeys, now, TRUE).valid

\* C18 (the Refresh Record lives as long as its token): while the record of a
\* subject is the one its last issuance wrote, it expires at the instant the
\* refresh token issued with it expires; with no logout since that issuance,
\* the guard does not answer SessionExpired to that token while it is
\* unexpired, and the record is gone once the token has expired.
C18_RecordExpiresWithToken ==
    \A u \in UserIds :
        hist.latest[u] # None =>
            /\ refreshKeys[u] # None => refreshKeys[u].exp = hist.latest[u].exp
            /\ JwtVerify(hist.latest[u], RefreshSecret, now) = "ok"
                  => Guard(hist.latest[u]) # "SessionExpired"
            /\ JwtVerify(hist.latest[u], RefreshSecret, now) # "ok"
                  => getRefreshToken(refreshKeys, u, now) = None

\* C19 (Revoked, then Authenticated again): a login of a subject in the
\* Revoked state that succeeds returns an access token that validateToken
\* answers valid: true for and a refresh token that the refresh guard accepts,
\* and the subject has a Refresh Record again.
C19_LoginAfterLogout ==
    (result.op = "login" /\ result.outcome = "ok" /\ result.fromRevoked) =>
        /\ validateToken(hist.justIssued.accessToken, blacklistKeys, now, TRUE).valid
        /\ Guard(hist.justIssued.refreshToken) = "ok"
        /\ getRefreshToken(refreshKeys, hist.justIssued.user.id, now) # None

C19_Witness ==
    /\ result.op = "login"
    /\ result.outcome = "ok"
    /\ result.fromRevoked
    /\ \E at \in issuedAT :
          /\ at.sub = hist.justIssued.user.id
          /\ JwtVerify(at, AccessSecret, now) = "ok"
          /\ ~validateToken(at, blacklistKeys, now, TRUE).valid

\* what validateToken answers to an access token, given the blacklist and
\* the clock
Valid(at, keys, t) == validateToken(at, keys, t, TRUE).valid

\* C20 (what logout and refresh leave alone): a logout(sub, tid) changes the
\* answer of validateToken for no issued access token whose token id is not
\* tid, and changes the Refresh Record of no subject other than sub; once it
\* has returned, the tokens with token id tid are not valid.  A refresh that
\* succeeds changes the answer of validateToken for no access token issued
\* before it.
C20_LogoutFrame ==
    [][\A p \in Procs :
         /\ (call[p] = Idle /\ call'[p].op = "logout") =>
               /\ \A at \in issuedAT : at.jti # call'[p].jti =>
                     Valid(at, blacklistKeys', now') = Valid(at, blacklistKeys, now)
               /\ refreshKeys' = refreshKeys
         /\ (call[p].op = "logout" /\ call'[p] = Idle) =>
               /\ \A at \in issuedAT :
                     IF at.jti # call[p].jti
                     THEN Valid(at, blacklistKeys', now') = Valid(at, blacklistKeys, now)
                     ELSE ~Valid(at, blacklistKeys', now')
               /\ \A u \in UserIds \ {call[p].userId} : refreshKeys'[u] = refreshKeys[u]
         /\ (call[p].op = "refresh" /\ call'[p] = Idle /\ result'.outcome = "ok") =>
               \A at \in issuedAT :
                     Valid(at, blacklistKeys', now') = Valid(at, blacklistKeys, now)
      ]_vars

C20_Witness ==
    /\ result.op = "logout"
    /\ result.outcome = "ok"
    /\ hist.lastLogout # None
    /\ \E at \in issuedAT :
          /\ at.sub # hist.lastLogout.userId
          /\ Valid(at, blacklistKeys, now)
          /\ refreshKeys[at.sub] # None
    /\ \E at \in issuedAT :
          /\ at.jti = hist.lastLogout.jti
          /\ JwtVerify(at, AccessSecret, now) = "ok"

\* C21 (logout against a refresh in flight): when a logout of a subject has
\* returned while a refresh of the same subject was in flight, no request is
\* in flight any more and no login or register of the subject has returned
\* since, the subject has no Refresh Record and the refresh guard accepts none
\* of its refresh tokens.
C21_LogoutBeatsRefresh ==
    (\A q \in Procs : call[q] = Idle) =>
        \A u \in hist.overlapped \cap hist.loggedOut :
            /\ getRefreshToken(refreshKeys, u, now) = None
            /\ \A rt \in issuedRT : rt.sub = u => Guard(rt) # "ok"

====
